---- MODULE Spec2Model ----
(***************************************************************************)
(* Model of the module registry of iocbuilder (iocbuilder/libversion.py):  *)
(* ModuleVersion (the catalog and the definition loader) and ModuleBase    *)
(* (the class binder and the set of referenced modules).                   *)
(*                                                                         *)
(* A name is a sequence of one-character strings.  A path is a sequence    *)
(* of components, a component is a sequence of tokens.  A ModuleVersion    *)
(* object is an index into the heap mods; 0 stands for Python's None.      *)
(* An optional value is <<>> (absent) or <<v>> (present).                  *)
(***************************************************************************)
EXTENDS Integers, Sequences, FiniteSets, TLC

VARIABLES
    table,              \* _ModuleVersionTable: libname -> ModuleVersion
    MacroNames,         \* ModuleVersion.__MacroNames
    LoadingModule,      \* ModuleVersion._LoadingModule
    mods,               \* the ModuleVersion objects stored in the table so far
    hardware,           \* attributes of the hardware module: name -> owner
    classes,            \* the class objects built by __ModuleBaseMeta
    ModuleSubClasses,   \* ModuleBase.ModuleSubClasses
    ReferencedModules,  \* ModuleBase._ReferencedModules
    executing,          \* the module whose definition file execfile is running
    last,               \* outcome of the most recent call
    marked,             \* history: the modules in the order UseModule added them
    input,              \* arguments of the function under study, if any
    output              \* the value the most recent call returned, if any

vars == <<table, MacroNames, LoadingModule, mods, hardware, classes,
          ModuleSubClasses, ReferencedModules, executing, last, marked,
          input, output>>

---------------------------------------------------------------------------
(* Bounds *)

MaxModules == 3
MaxClasses == 2

---------------------------------------------------------------------------
(* Values *)

None == <<>>
Some(v) == <<v>>

LowerCase == {"a","b","c","d","e","f","g","h","i","j","k","l","m",
              "n","o","p","q","r","s","t","u","v","w","x","y","z"}
UpperCase == {"A","B","C","D","E","F","G","H","I","J","K","L","M",
              "N","O","P","Q","R","S","T","U","V","W","X","Y","Z"}
Digits == {"0","1","2","3","4","5","6","7","8","9"}

ValidNameChars == UpperCase \cup LowerCase \cup Digits \cup {"_"}

\* str.upper, character by character
UpperChar(c) ==
    CASE c = "a" -> "A" [] c = "b" -> "B" [] c = "c" -> "C" [] c = "d" -> "D"
      [] c = "e" -> "E" [] c = "f" -> "F" [] c = "g" -> "G" [] c = "h" -> "H"
      [] c = "i" -> "I" [] c = "j" -> "J" [] c = "k" -> "K" [] c = "l" -> "L"
      [] c = "m" -> "M" [] c = "n" -> "N" [] c = "o" -> "O" [] c = "p" -> "P"
      [] c = "q" -> "Q" [] c = "r" -> "R" [] c = "s" -> "S" [] c = "t" -> "T"
      [] c = "u" -> "U" [] c = "v" -> "V" [] c = "w" -> "W" [] c = "x" -> "X"
      [] c = "y" -> "Y" [] c = "z" -> "Z" [] OTHER -> c

Upper(s) == [i \in DOMAIN s |-> UpperChar(s[i])]

\* The names the callers pass to ModuleVersion and give to their classes.
NamePool == { <<>>, <<"a">>, <<"A">>, <<"b">>, <<"-">> }
TypeNames == { <<"a">>, <<"b">> }
ExplicitNames == { <<"b">> }
ExportLists == { None, Some(<<"x">>), Some(<<"y", "x">>) }

\* The identifier grammar [A-Za-z0-9_]+ of the specification.
IsIdentifier(s) == Len(s) >= 1 /\ \A i \in DOMAIN s : s[i] \in ValidNameChars

---------------------------------------------------------------------------
(* Paths and the search for a definition source *)

EmptyMap == [x \in {} |-> 0]

prodSupport == << <<"prod">> >>
DefaultsDir == << <<"iocbuilder">>, <<"defaults">> >>
LoadPathDir == << <<"lp">> >>
LoadPaths == { None, Some(LoadPathDir) }

\* os.path.join(path, component)
JoinPath(path, comp) == Append(path, comp)

\* if self.version: neither None nor the empty string
HasVersion(version) == version # None /\ version[1] # <<>>

\* As LibPath, but the name of the module is joined whatever use_name says.
LibPath_NameAlways(m) ==
    LET path == JoinPath(m.home, m.name)
    IN  IF HasVersion(m.version) THEN JoinPath(path, m.version[1]) ELSE path

\* ModuleVersion.LibPath(macro_name = False)
LibPath(m) ==
    LET path == IF m.use_name THEN JoinPath(m.home, m.name) ELSE m.home
    IN  IF HasVersion(m.version) THEN JoinPath(path, m.version[1]) ELSE path

\* ModuleVersion.LibPath(macro_name): '$(%s)' % macroname is one component.
LibPathOf(m, macro_name) ==
    IF macro_name
    THEN << <<"$(">> \o m.macroname \o <<")">> >>
    ELSE LibPath(m)

\* As CheckPythonModule, but the plain file is tried before the package.
CheckPythonModule_FileFirst(path, module, readable) ==
    LET package == JoinPath(JoinPath(path, module), <<"__init__.py">>)
        plain   == JoinPath(path, Append(module, ".py"))
    IN  IF plain \in readable
        THEN [ModuleFile |-> Some(plain), IsPackage |-> FALSE]
        ELSE IF package \in readable
        THEN [ModuleFile |-> Some(package), IsPackage |-> TRUE]
        ELSE [ModuleFile |-> None, IsPackage |-> FALSE]

\* _CheckPythonModule, lines 26-38
CheckPythonModule(path, module, readable) ==
    LET package == JoinPath(JoinPath(path, module), <<"__init__.py">>)
        plain   == JoinPath(path, Append(module, ".py"))
    IN  IF package \in readable
        THEN [ModuleFile |-> Some(package), IsPackage |-> TRUE]
        ELSE IF plain \in readable
        THEN [ModuleFile |-> Some(plain), IsPackage |-> FALSE]
        ELSE [ModuleFile |-> None, IsPackage |-> FALSE]

\* The first half of __LoadModuleDefinitions: which file is to be executed.
FindModuleFile(m, load_path, readable) ==
    IF load_path # None
    THEN CheckPythonModule(load_path[1], m.name, readable)
    ELSE LET builder == CheckPythonModule(LibPath(m), <<"builder">>, readable)
         IN  IF builder.ModuleFile # None
             THEN builder
             ELSE CheckPythonModule(DefaultsDir, m.name, readable)

\* The files the file system may hold when a module is registered.
ReadableChoices(m, load_path) ==
    IF load_path # None
    THEN { {}, { JoinPath(load_path[1], Append(m.name, ".py")) } }
    ELSE { {},
           { JoinPath(JoinPath(LibPath(m), <<"builder">>), <<"__init__.py">>),
             JoinPath(LibPath(m), <<"builder", ".py">>) },
           { JoinPath(DefaultsDir, Append(m.name, ".py")) } }

---------------------------------------------------------------------------
(* ModuleVersion.__init__ *)

\* line 72: set(libname) <= set(__ValidNameChars)
NameIsValid(libname) == \A i \in DOMAIN libname : libname[i] \in ValidNameChars

\* The macro name left as the name is given.
MacroNameOf_AsGiven(libname) == libname

\* line 79
MacroNameOf(libname) == Upper(libname)

\* No check of the allocated macro names.
MacroNameFree_Unchecked(macroname, allocated) == TRUE

\* line 80
MacroNameFree(macroname, allocated) == macroname \notin allocated

\* line 87: (not override) <= (not libDefined)
NotMultiplyDefined(override, libDefined) == (~override) => (~libDefined)

\* override as an upsert: no check that the module is defined.
OverrideDefined_Upsert(override, libDefined) == TRUE

\* line 89: override <= libDefined
OverrideDefined(override, libDefined) == override => libDefined

\* line 176
NoNestedLoad(loading) == loading = 0

\* As SkipsLoad, but a module without a definition file is loaded as well.
SkipsLoad_OnlySuppressed(suppress_import, ModuleFile) == suppress_import

\* As SkipsLoad, but suppress_import is not looked at.
SkipsLoad_OnlyMissing(suppress_import, ModuleFile) == ModuleFile = None

\* lines 96 and 165: nothing is executed under suppress_import or when no
\* definition file was found.
SkipsLoad(suppress_import, ModuleFile) ==
    suppress_import \/ ModuleFile = None

\* The attributes lines 69-79 give a ModuleVersion.
ModuleOf(libname, version, home, use_name) ==
    [name |-> libname, macroname |-> MacroNameOf(libname),
     version |-> version,
     home |-> IF home = None THEN prodSupport ELSE home[1],
     use_name |-> use_name]

\* ModuleVersion(libname) with the defaults of lines 64-66
NewModule(libname) == ModuleOf(libname, None, None, TRUE)

\* The most recent call: the operation, its arguments and how it ended.  The
\* arguments of a class statement are in the class object cls it has built;
\* when it builds none, those that decided it are recorded here.
NoCall ==
    [op |-> "none", name |-> <<>>, override |-> FALSE, suppress |-> FALSE,
     found |-> FALSE, result |-> "ok", why |-> "", cls |-> 0,
     explicit |-> None, inherits |-> FALSE, base |-> FALSE,
     all |-> None, listing |-> <<>>]

Call(op) == [NoCall EXCEPT !.op = op]

\* An exception raised while a definition file is executing leaves execfile,
\* and with it __LoadModuleDefinitions and __init__ of the loading module,
\* unless the definition code catches it.
Raise(call, caught) ==
    /\ last' = call
    /\ executing' = IF executing # 0 /\ ~caught THEN 0 ELSE executing

Catches == IF executing = 0 THEN {TRUE} ELSE BOOLEAN

Register(libname, override, suppress_import, load_path, readable, caught) ==
    LET macroname  == MacroNameOf(libname)
        libDefined == libname \in DOMAIN table
        self       == Len(mods) + 1
        found      == FindModuleFile(NewModule(libname), load_path, readable)
        call(result, why) ==
            [Call("Register") EXCEPT !.name = libname, !.override = override,
                !.suppress = suppress_import, !.result = result, !.why = why,
                !.found = found.ModuleFile # None]
    IN
    IF ~NameIsValid(libname)
    THEN /\ Raise(call("ValidationError", "name"), caught)
         /\ UNCHANGED <<table, MacroNames, LoadingModule, mods>>
    ELSE IF ~MacroNameFree(macroname, MacroNames)
    THEN /\ Raise(call("ValidationError", "macro"), caught)
         /\ UNCHANGED <<table, MacroNames, LoadingModule, mods>>
    ELSE
    /\ MacroNames' = MacroNames \cup {macroname}
    /\ IF ~NotMultiplyDefined(override, libDefined)
       THEN /\ Raise(call("ValidationError", "multiply defined"), caught)
            /\ UNCHANGED <<table, LoadingModule, mods>>
       ELSE IF ~OverrideDefined(override, libDefined)
       THEN /\ Raise(call("ValidationError", "not defined"), caught)
            /\ UNCHANGED <<table, LoadingModule, mods>>
       ELSE
       /\ Len(mods) < MaxModules
       /\ table' = (libname :> self) @@ table
       /\ mods' = Append(mods, NewModule(libname))
       /\ IF SkipsLoad(suppress_import, found.ModuleFile)
          THEN /\ last' = call("ok", "")
               /\ UNCHANGED <<LoadingModule, executing>>
          ELSE
          /\ IF ~NoNestedLoad(LoadingModule)
             THEN /\ Raise(call("LoadError", ""), caught)
                  /\ UNCHANGED LoadingModule
             ELSE /\ LoadingModule' = self
                  /\ executing' = self
                  /\ last' = call("loading", "")

\* ModuleVersion(libname, override = ..., suppress_import = ..., load_path = ...)
RegisterCall ==
    \E libname \in NamePool, override \in BOOLEAN, suppress_import \in BOOLEAN,
       load_path \in LoadPaths, caught \in Catches :
        \E readable \in ReadableChoices(NewModule(libname), load_path) :
            /\ Register(libname, override, suppress_import, load_path,
                        readable, caught)
            /\ UNCHANGED <<hardware, classes, ModuleSubClasses,
                           ReferencedModules, marked, input,
                   output>>

\* As RegisterModule, but a registration binds the classes that were
\* waiting for the name.
RegisterModule_Binds ==
    \E libname \in TypeNames, caught \in Catches :
        \E override \in (IF libname \in DOMAIN table THEN BOOLEAN ELSE {FALSE}),
           readable \in ReadableChoices(NewModule(libname), None) :
            /\ Register(libname, override, FALSE, None, readable, caught)
            /\ classes' =
                 [c \in DOMAIN classes |->
                    IF /\ ~classes[c].ok
                       /\ classes[c].ModuleName = Some(libname)
                       /\ libname \in DOMAIN table'
                    THEN [classes[c] EXCEPT !.ModuleVersion = table'[libname],
                                            !.ok = TRUE]
                    ELSE classes[c]]
            /\ UNCHANGED <<hardware, ModuleSubClasses, ReferencedModules,
                           marked, input, output>>

\* The same call as the build scripts that declare classes make it: the
\* modules are named after the classes, and a version is overridden only
\* where one is defined.
RegisterModule ==
    \E libname \in TypeNames, caught \in Catches :
        \E override \in (IF libname \in DOMAIN table THEN BOOLEAN ELSE {FALSE}),
           readable \in ReadableChoices(NewModule(libname), None) :
            /\ Register(libname, override, FALSE, None, readable, caught)
            /\ UNCHANGED <<hardware, classes, ModuleSubClasses,
                           ReferencedModules, marked, input,
                   output>>

\* As RegisterBare, but a registration starts the record of use afresh.
RegisterBare_Resets ==
    \E libname \in TypeNames, caught \in Catches :
        \E override \in (IF libname \in DOMAIN table THEN BOOLEAN ELSE {FALSE}) :
            /\ Register(libname, override, FALSE, None, {}, caught)
            /\ ReferencedModules' = {}
            /\ UNCHANGED <<hardware, classes, ModuleSubClasses, marked,
                           input, output>>

\* ModuleVersion(libname) or ModuleVersion(libname, override = True) for a
\* module that has no definition file; a version is overridden only where
\* one is defined.
RegisterBare ==
    \E libname \in TypeNames, caught \in Catches :
        \E override \in (IF libname \in DOMAIN table THEN BOOLEAN ELSE {FALSE}) :
            /\ Register(libname, override, FALSE, None, {}, caught)
            /\ UNCHANGED <<hardware, classes, ModuleSubClasses,
                           ReferencedModules, marked, input, output>>

---------------------------------------------------------------------------
(* Execution of a definition file: lines 179-187 *)

\* A statement of the definition file raises an exception nobody catches.
DefinitionRaises ==
    /\ executing # 0
    /\ executing' = 0
    /\ last' = [Call("execfile") EXCEPT !.name = mods[executing].name,
                    !.result = "DefinitionError"]
    /\ UNCHANGED <<table, MacroNames, LoadingModule, mods, hardware, classes,
                   ModuleSubClasses, ReferencedModules, marked, input,
                   output>>

\* As Taken, but no name counts as taken: setattr replaces what is there.
Taken_Never(hw, name) == FALSE

\* hasattr(hardware, name), line 184
Taken(hw, name) == name \in DOMAIN hw

\* The loop of lines 183-187 over the rest of __all__.
RECURSIVE Export(_, _, _)
Export(hw, all, self) ==
    IF all = <<>>
    THEN [hardware |-> hw, conflict |-> FALSE]
    ELSE IF Taken(hw, Head(all))
    THEN [hardware |-> hw, conflict |-> TRUE]
    ELSE Export((Head(all) :> self) @@ hw, Tail(all), self)

\* execfile returns; all is the __all__ the definition file has set, if any.
ExecfileReturns(all) ==
    LET exported == IF all = None
                    THEN [hardware |-> hardware, conflict |-> FALSE]
                    ELSE Export(hardware, all[1], executing)
    IN
    /\ executing # 0
    /\ LoadingModule' = 0
    /\ executing' = 0
    /\ hardware' = exported.hardware
    /\ last' = [Call("execfile") EXCEPT !.name = mods[executing].name,
                    !.all = all,
                    !.result = IF exported.conflict THEN "SymbolConflict"
                               ELSE "ok"]
    /\ UNCHANGED <<table, MacroNames, mods, classes, ModuleSubClasses,
                   ReferencedModules, marked, input,
                   output>>

LoadReturns == \E all \in ExportLists : ExecfileReturns(all)

\* A definition file without __all__ returns.
LoadReturnsPlain == ExecfileReturns(None)

---------------------------------------------------------------------------
(* ModuleBase and its metaclass *)

\* getattr(cls, 'ModuleName', None) along the base classes; ModuleBase itself
\* has no ModuleName.
RECURSIVE GetModuleName(_, _)
GetModuleName(cs, c) ==
    IF c = 0 THEN None
    ELSE IF cs[c].ModuleName # None THEN cs[c].ModuleName
    ELSE GetModuleName(cs, cs[c].parent)

\* getattr(cls, 'ModuleVersion', 0) along the base classes.
RECURSIVE GetModuleVersion(_, _)
GetModuleVersion(cs, c) ==
    IF c = 0 THEN 0
    ELSE IF cs[c].ModuleVersion # 0 THEN cs[c].ModuleVersion
    ELSE GetModuleVersion(cs, cs[c].parent)

\* cls.__call_init_once along the base classes; ModuleBase sets it True.
RECURSIVE GetCallInitOnce(_, _)
GetCallInitOnce(cs, c) ==
    IF c = 0 THEN TRUE
    ELSE IF cs[c].call_init_once # None THEN cs[c].call_init_once[1]
    ELSE GetCallInitOnce(cs, cs[c].parent)

RECURSIVE HasAncestorNamed(_, _, _)
HasAncestorNamed(cs, c, name) ==
    IF c = 0 THEN FALSE
    ELSE cs[c].name = name \/ HasAncestorNamed(cs, cs[c].parent, name)

\* line 240: hasattr(cls, 'ModuleName'), for a class with ModuleName explicit
\* in its body and base class parent.
HasModuleName(cs, parent, explicit) ==
    explicit # None \/ GetModuleName(cs, parent) # None

\* lines 235-241: the ModuleName of a class declared by the build script.
TopLevelModuleName(cs, name, parent, explicit) ==
    IF ~HasModuleName(cs, parent, explicit) THEN Some(name) ELSE explicit

\* line 247
LoadingName(loading) == mods[loading].name

\* No check of the ModuleName in the body.
AssociationAgrees_Unchecked(explicit, name) == TRUE

\* line 248-250: a ModuleName in the body must be that of the loading module.
AssociationAgrees(explicit, name) == explicit # None => explicit[1] = name

\* As Lookup, but the module created last is taken, whatever the name.
Lookup_Latest(t, name) == Len(mods)

\* line 253
Lookup(t, name) == t[name]

\* As IsBaseClass, but BaseClass is left on the class that declared it and
\* its subclasses see it.
IsBaseClass_Inherited(cs, parent, base) ==
    base \/ (parent # 0 /\ cs[parent].body_BaseClass)

\* hasattr(cls, 'BaseClass') at line 223: line 230 has deleted the attribute
\* from every class that declared it, so only the body of the class counts.
IsBaseClass(cs, parent, base) == base

\* class name(parent): [ModuleName = explicit] [BaseClass = True]
\* A class object keeps its body: body_ModuleName (the ModuleName the body
\* sets, if any) and body_BaseClass.
DeclareClass(name, parent, explicit, base, caught) ==
    LET c == Len(classes) + 1
        tied ==
            [Call("DeclareClass") EXCEPT !.base = base, !.explicit = explicit,
                !.inherits = GetModuleName(classes, parent) # None,
                !.result = "BaseClassTied"]
        built(result) ==
            [Call("DeclareClass") EXCEPT !.cls = c, !.result = result]
        new(ModuleName, ModuleVersion, ok) ==
            [name |-> name, parent |-> parent, body_ModuleName |-> explicit,
             body_BaseClass |-> base, ModuleName |-> ModuleName,
             ModuleVersion |-> ModuleVersion, call_init_once |-> None,
             ok |-> ok]
        own == IF LoadingModule = 0
               THEN TopLevelModuleName(classes, name, parent, explicit)
               ELSE Some(LoadingName(LoadingModule))
        effective == IF own # None THEN own[1]
                     ELSE GetModuleName(classes, parent)[1]
    IN
    /\ parent # 0 => classes[parent].ok
    /\ IF HasAncestorNamed(classes, parent, name)
       THEN \* _autosuper_meta.__init__: the __super attribute is taken
            /\ Raise([Call("DeclareClass") EXCEPT !.result = "NameConflict"],
                     caught)
            /\ UNCHANGED <<classes, ModuleSubClasses>>
       ELSE IF IsBaseClass(classes, parent, base)
       THEN IF HasModuleName(classes, parent, explicit)
            THEN /\ Raise(tied, caught)
                 /\ UNCHANGED <<classes, ModuleSubClasses>>
            ELSE /\ Len(classes) < MaxClasses
                 /\ classes' = Append(classes, new(None, 0, TRUE))
                 /\ last' = built("ok")
                 /\ UNCHANGED <<ModuleSubClasses, executing>>
       ELSE
       /\ Len(classes) < MaxClasses
       /\ ModuleSubClasses' = Append(ModuleSubClasses, c)
       /\ IF LoadingModule # 0
             /\ ~AssociationAgrees(explicit, LoadingName(LoadingModule))
          THEN /\ classes' = Append(classes, new(explicit, 0, FALSE))
               /\ Raise(built("AssociationMismatch"), caught)
          ELSE IF effective \notin DOMAIN table
          THEN /\ classes' = Append(classes, new(own, 0, FALSE))
               /\ Raise(built("NotRegistered"), caught)
          ELSE /\ classes' = Append(classes,
                                    new(own, Lookup(table, effective), TRUE))
               /\ last' = built("ok")
               /\ UNCHANGED executing

\* As DeclareClassCall, but the declaration of a class marks its module.
DeclareClassCall_Marks ==
    \E name \in TypeNames, parent \in 0..Len(classes),
       explicit \in {None} \cup {Some(n) : n \in ExplicitNames},
       base \in BOOLEAN, caught \in Catches :
        /\ DeclareClass(name, parent, explicit, base, caught)
        /\ ReferencedModules' =
              ReferencedModules \cup
                ({ classes'[c].ModuleVersion : c \in 1..Len(classes') } \ {0})
        /\ UNCHANGED <<table, MacroNames, LoadingModule, mods, hardware,
                       marked, input, output>>

DeclareClassCall ==
    \E name \in TypeNames, parent \in 0..Len(classes),
       explicit \in {None} \cup {Some(n) : n \in ExplicitNames},
       base \in BOOLEAN, caught \in Catches :
        /\ DeclareClass(name, parent, explicit, base, caught)
        /\ UNCHANGED <<table, MacroNames, LoadingModule, mods, hardware,
                       ReferencedModules, marked, input,
                   output>>

\* As SetAdd, but the set is assigned rather than added to.
SetAdd_Latest(set, m) == {m}

\* set.add with the __hash__ and __cmp__ of lines 132-133: an element whose
\* name is already in the set is not added.
SetAdd(set, m) ==
    IF \E r \in set : mods[r].name = mods[m].name THEN set ELSE set \cup {m}

\* The history of the additions: m is appended when set.add adds it.
Marked(seq, set, m) == IF SetAdd(set, m) = set THEN seq ELSE Append(seq, m)

\* ModuleBase.UseModule, called on class c
UseModule(c, caught) ==
    LET version == GetModuleVersion(classes, c)
    IN  IF version = 0
        THEN /\ Raise([Call("UseModule") EXCEPT !.cls = c,
                           !.result = "AttributeError"], caught)
             /\ UNCHANGED <<ReferencedModules, marked>>
        ELSE /\ ReferencedModules' = SetAdd(ReferencedModules, version)
             /\ marked' = Marked(marked, ReferencedModules, version)
             /\ last' = [Call("UseModule") EXCEPT !.cls = c]
             /\ UNCHANGED executing

UseModuleCall ==
    \E c \in 1..Len(classes), caught \in Catches :
        /\ classes[c].ok
        /\ UseModule(c, caught)
        /\ UNCHANGED <<table, MacroNames, LoadingModule, mods, hardware,
                       classes, ModuleSubClasses, input, output>>

\* ModuleBase.__new__ and __init_once__: an instance of class c is created.
Instantiate(c, caught) ==
    LET version == GetModuleVersion(classes, c)
    IN  IF GetCallInitOnce(classes, c)
        THEN /\ classes' = [classes EXCEPT ![c].call_init_once = Some(FALSE)]
             /\ IF version = 0
                THEN /\ Raise([Call("Instantiate") EXCEPT !.cls = c,
                                   !.result = "AttributeError"], caught)
                     /\ UNCHANGED <<ReferencedModules, marked>>
                ELSE /\ ReferencedModules' = SetAdd(ReferencedModules, version)
                     /\ marked' = Marked(marked, ReferencedModules, version)
                     /\ last' = [Call("Instantiate") EXCEPT !.cls = c,
                                     !.why = "first"]
                     /\ UNCHANGED executing
        ELSE /\ last' = [Call("Instantiate") EXCEPT !.cls = c]
             /\ UNCHANGED <<classes, ReferencedModules, marked, executing>>

InstantiateCall ==
    \E c \in 1..Len(classes), caught \in Catches :
        /\ classes[c].ok
        /\ Instantiate(c, caught)
        /\ UNCHANGED <<table, MacroNames, LoadingModule, mods, hardware,
                       ModuleSubClasses, input, output>>

\* The orders in which iterating over a Python set can yield its elements:
\* a set keeps no record of the order of its additions.
Orders(set) ==
    { seq \in [1..Cardinality(set) -> set] :
        \A i, j \in DOMAIN seq : seq[i] = seq[j] => i = j }

\* ModuleBase.ListModules returns the set; the caller iterates over it.
ListModules(seq) ==
    last' = [Call("ListModules") EXCEPT !.listing = seq]

ListModulesCall ==
    \E seq \in Orders(ReferencedModules) :
        /\ ListModules(seq)
        /\ UNCHANGED <<table, MacroNames, LoadingModule, mods, hardware,
                       classes, ModuleSubClasses, ReferencedModules,
                       executing, marked, input, output>>

---------------------------------------------------------------------------
(* The registry as a state machine *)

\* The module as imported: nothing registered, declared or used.
InitRegistry ==
    /\ table = EmptyMap
    /\ MacroNames = {}
    /\ LoadingModule = 0
    /\ mods = <<>>
    /\ hardware = EmptyMap
    /\ classes = <<>>
    /\ ModuleSubClasses = <<>>
    /\ ReferencedModules = {}
    /\ executing = 0
    /\ last = NoCall
    /\ marked = <<>>

Init ==
    /\ InitRegistry
    /\ input = None
    /\ output = None

Next ==
    \/ RegisterCall
    \/ DefinitionRaises
    \/ LoadReturns
    \/ DeclareClassCall
    \/ UseModuleCall
    \/ InstantiateCall
    \/ ListModulesCall

Spec == Init /\ [][Next]_vars

\* Spec is the whole registry.  The catalog never reads the classes and the
\* binder reads the catalog only through the table and _LoadingModule, so
\* the properties below are checked under the two parts, each of a size
\* that can be explored exhaustively.

\* The catalog and the definition loader on their own.
NextCatalog ==
    \/ RegisterCall
    \/ DefinitionRaises
    \/ LoadReturns

SpecCatalog == Init /\ [][NextCatalog]_vars

\* The class binder, over modules named after the classes.
NextBinder ==
    \/ RegisterModule
    \/ DefinitionRaises
    \/ LoadReturnsPlain
    \/ DeclareClassCall

SpecBinder == Init /\ [][NextBinder]_vars

\* The record of the modules in use, over the classes the binder makes.
NextTracker ==
    \/ RegisterBare
    \/ DeclareClassCall
    \/ InstantiateCall
    \/ UseModuleCall
    \/ ListModulesCall

SpecTracker == Init /\ [][NextTracker]_vars

---------------------------------------------------------------------------
(* LibPath as a function of the attributes of a ModuleVersion *)

PathNames == { <<"f", "o", "o">>, <<"a">>, <<"a", "B">> }
Versions == { None, Some(<<>>), Some(<<"2">>), Some(<<"1", "-", "0">>) }
Homes == { None, Some(<< <<"opt">> >>), Some(<< <<"opt">>, <<"x">> >>) }

PathInputs ==
    [libname : PathNames, version : Versions, home : Homes,
     use_name : BOOLEAN, macro_name : BOOLEAN]

InitPath ==
    /\ InitRegistry
    /\ input \in { Some(i) : i \in PathInputs }
    /\ output = None

\* ModuleVersion(libname, version, home, use_name = ...).LibPath(macro_name)
LibPathCall ==
    /\ input # None
    /\ output' = Some(LibPathOf(ModuleOf(input[1].libname, input[1].version,
                                         input[1].home, input[1].use_name),
                                input[1].macro_name))
    /\ UNCHANGED <<table, MacroNames, LoadingModule, mods, hardware, classes,
                   ModuleSubClasses, ReferencedModules, executing, last,
                   marked, input>>

NextPath == LibPathCall

SpecPath == InitPath /\ [][NextPath]_vars

---------------------------------------------------------------------------
(* The search for the definition file as a function of the file system *)

SearchNames == { <<"a">>, <<"f", "o", "o">> }

\* The files the search can ask for, under the load path, the module and
\* the defaults directory.
SearchFiles(m) ==
    UNION { { JoinPath(JoinPath(dir.path, dir.module), <<"__init__.py">>),
              JoinPath(dir.path, Append(dir.module, ".py")) } :
            dir \in { [path |-> LoadPathDir, module |-> m.name],
                      [path |-> LibPath(m), module |-> <<"builder">>],
                      [path |-> DefaultsDir, module |-> m.name] } }

SearchInputs ==
    UNION { [libname : {n}, load_path : LoadPaths,
             readable : SUBSET SearchFiles(NewModule(n))] : n \in SearchNames }

InitSearch ==
    /\ InitRegistry
    /\ input \in { Some(i) : i \in SearchInputs }
    /\ output = None

\* The search of __LoadModuleDefinitions for ModuleVersion(libname,
\* load_path = ...) over the files that are readable.
FindModuleFileCall ==
    /\ input # None
    /\ output' = Some(FindModuleFile(NewModule(input[1].libname),
                                     input[1].load_path, input[1].readable))
    /\ UNCHANGED <<table, MacroNames, LoadingModule, mods, hardware, classes,
                   ModuleSubClasses, ReferencedModules, executing, last,
                   marked, input>>

NextSearch == FindModuleFileCall

SpecSearch == InitSearch /\ [][NextSearch]_vars

---------------------------------------------------------------------------
(* Properties of the catalog (SpecCatalog) *)

Registered == DOMAIN table
Descriptor(name) == mods[table[name]]

\* The call just made was ModuleVersion(...) and it got past the checks of
\* lines 72-89.
PassedValidation(call) ==
    call.op = "Register" /\ call.result \in {"ok", "loading", "LoadError"}

\* C1, as stated: a valid identifier that is not registered is always
\* accepted by a registration without override, and is then found in the
\* catalog under its name, with the upper-cased name as macro name.
C1_FreshNameRegisters ==
    [][ ( /\ last'.op = "Register"
          /\ ~last'.override
          /\ IsIdentifier(last'.name)
          /\ last'.name \notin DOMAIN table )
        => ( /\ PassedValidation(last')
             /\ last'.name \in DOMAIN table'
             /\ mods'[table'[last'.name]].name = last'.name
             /\ mods'[table'[last'.name]].macroname = Upper(last'.name) )
      ]_vars

\* C1, amended: a valid identifier that is not registered and whose
\* upper-cased form is not an allocated macro name is accepted by a
\* registration without override, and is then found in the catalog under its
\* name, with the upper-cased name as macro name.
C1_FreshMacroRegisters ==
    [][ ( /\ last'.op = "Register"
          /\ ~last'.override
          /\ IsIdentifier(last'.name)
          /\ last'.name \notin DOMAIN table
          /\ Upper(last'.name) \notin MacroNames )
        => ( /\ PassedValidation(last')
             /\ last'.name \in DOMAIN table'
             /\ mods'[table'[last'.name]].name = last'.name
             /\ mods'[table'[last'.name]].macroname = Upper(last'.name) )
      ]_vars

C1_Witness ==
    /\ last.op = "Register"
    /\ last.result = "ok"
    /\ ~last.override
    /\ IsIdentifier(last.name)
    /\ last.name \in Registered
    /\ table[last.name] = Len(mods)
    /\ Descriptor(last.name).macroname # last.name

\* C2: registering a registered name with override succeeds and replaces the
\* entry of the catalog.
C2_OverrideReplaces ==
    [][ ( /\ last'.op = "Register"
          /\ last'.override
          /\ last'.name \in DOMAIN table )
        => ( /\ PassedValidation(last')
             /\ table'[last'.name] # table[last'.name] )
      ]_vars

\* C3: registering a registered name without override, or an unregistered
\* name with override, fails with ValidationError and leaves the mapping of
\* the catalog as it was.
C3_OverrideMisuseRejected ==
    [][ ( /\ last'.op = "Register"
          /\ last'.override # (last'.name \in DOMAIN table) )
        => ( /\ last'.result = "ValidationError"
             /\ table' = table )
      ]_vars

C3_Witness ==
    /\ last.op = "Register"
    /\ last.override
    /\ IsIdentifier(last.name)
    /\ last.name \notin Registered
    /\ last.result = "ValidationError"
    /\ last.why = "not defined"

\* C4: a registration that fails with ValidationError leaves the catalog and
\* the set of allocated macro names as they were.
C4_FailedRegistrationLeavesNothing ==
    [][ ( /\ last'.op = "Register"
          /\ last'.result = "ValidationError" )
        => ( /\ table' = table
             /\ MacroNames' = MacroNames )
      ]_vars

\* C5: no two registered modules have the same macro name, and registering a
\* name whose upper-cased form is that of another registered name fails with
\* ValidationError.
C5_MacroNamesUnique ==
    /\ \A n1, n2 \in Registered :
          Descriptor(n1).macroname = Descriptor(n2).macroname => n1 = n2
    /\ ( /\ last.op = "Register"
         /\ \E m \in Registered : m # last.name /\ Upper(m) = Upper(last.name) )
       => last.result = "ValidationError"

C5_Witness ==
    /\ last.op = "Register"
    /\ last.result = "ValidationError"
    /\ last.why = "macro"
    /\ last.name \notin Registered
    /\ \E m \in Registered : m # last.name /\ Upper(m) = Upper(last.name)

\* C6: a name outside the grammar [A-Za-z0-9_]+, the empty name included,
\* is refused with ValidationError and is never a key of the catalog.
C6_OnlyIdentifiersRegistered ==
    /\ \A n \in Registered : IsIdentifier(n)
    /\ (last.op = "Register" /\ ~IsIdentifier(last.name))
       => last.result = "ValidationError"

\* C7: a registration without suppress_import made by a definition file that
\* is being executed fails with LoadError, whether or not the second module
\* has a definition source.
C7_NestedRegistrationFails ==
    [][ ( /\ last'.op = "Register"
          /\ executing # 0
          /\ ~last'.suppress
          /\ last'.result # "ValidationError" )
        => last'.result = "LoadError"
      ]_vars

\* C8: whenever no definition file is being executed (every registration
\* made by the build script has returned or failed), no module is marked as
\* loading.
C8_GuardReleased == executing = 0 => LoadingModule = 0

---------------------------------------------------------------------------
(* Properties of the class binder (SpecBinder) *)

\* The call just made was a class statement that built the class object cls
\* of a class that is not a base class.
DeclaredConcrete(call) ==
    /\ call.op = "DeclareClass"
    /\ call.cls # 0
    /\ ~classes[call.cls].body_BaseClass

\* C9: a class declared while module M is marked as loading gets the name of
\* M as ModuleName and M itself as ModuleVersion when its body sets no
\* ModuleName (whatever it inherits) or sets that of M; when its body sets
\* another ModuleName the declaration fails with AssociationMismatch.
C9_BoundToLoadingModule ==
    (DeclaredConcrete(last) /\ LoadingModule # 0) =>
        LET cls == classes[last.cls]
            M   == mods[LoadingModule].name
        IN  IF cls.body_ModuleName \in {None, Some(M)}
            THEN /\ last.result = "ok"
                 /\ cls.ModuleName = Some(M)
                 /\ cls.ModuleVersion = LoadingModule
            ELSE /\ last.result = "AssociationMismatch"
                 /\ cls.ModuleVersion = 0

C9_Witness ==
    /\ DeclaredConcrete(last)
    /\ executing # 0
    /\ LoadingModule = executing
    /\ last.result = "ok"
    /\ classes[last.cls].body_ModuleName = None
    /\ classes[last.cls].parent # 0
    /\ GetModuleName(classes, classes[last.cls].parent) # None
    /\ GetModuleName(classes, classes[last.cls].parent)
           # Some(mods[LoadingModule].name)
    /\ classes[last.cls].ModuleVersion = LoadingModule

\* C10: a class declared while no module is marked as loading, whose body
\* sets no ModuleName, is bound to the module named as the class, also when
\* it subclasses a class bound to another module.
C10_BoundToOwnName ==
    ( /\ DeclaredConcrete(last)
      /\ LoadingModule = 0
      /\ classes[last.cls].body_ModuleName = None )
    => /\ GetModuleName(classes, last.cls) = Some(classes[last.cls].name)
       /\ last.result = "ok" =>
             classes[last.cls].ModuleVersion = table[classes[last.cls].name]

---------------------------------------------------------------------------
(* Properties of the record of used modules (SpecTracker) *)

\* No instance of a class declared with BaseClass = True has been asked for.
OnlyConcreteInstantiated ==
    \A c \in 1..Len(classes) :
        classes[c].body_BaseClass => classes[c].call_init_once = None

RECURSIVE SelfAndBases(_, _)
SelfAndBases(cs, c) ==
    IF c = 0 THEN {} ELSE {c} \cup SelfAndBases(cs, cs[c].parent)

\* The ModuleVersion attribute a class shows: that of the nearest of the
\* class and its base classes that has one.
ShownModuleVersion(cs, c) ==
    LET bound == { a \in SelfAndBases(cs, c) : cs[a].ModuleVersion # 0 }
    IN  IF bound = {} THEN 0
        ELSE cs[CHOOSE a \in bound :
                    \A b \in bound : b \in SelfAndBases(cs, a)].ModuleVersion

\* C12: _ReferencedModules changes only in a step that instantiates a class
\* or calls UseModule on it, and then by the module this class is bound to;
\* registering a module or declaring a class adds nothing, and no two
\* elements of the set are descriptors of the same module.
C12_OnlyUsedModulesListed ==
    [][ /\ ReferencedModules' # ReferencedModules =>
            /\ last'.op \in {"Instantiate", "UseModule"}
            /\ last'.result = "ok"
            /\ ShownModuleVersion(classes', last'.cls) # 0
            /\ ReferencedModules' =
                 ReferencedModules
                   \cup {ShownModuleVersion(classes', last'.cls)}
        /\ \A r1, r2 \in ReferencedModules' :
              mods'[r1].name = mods'[r2].name => r1 = r2
      ]_vars

\* UseModule is called on a class already instantiated, while another module
\* is registered and has a class bound to it but is not in use.
C12_Witness ==
    /\ last.op = "UseModule"
    /\ last.result = "ok"
    /\ classes[last.cls].call_init_once = Some(FALSE)
    /\ ReferencedModules = {classes[last.cls].ModuleVersion}
    /\ \E c \in 1..Len(classes) :
          /\ classes[c].ModuleVersion # 0
          /\ classes[c].ModuleVersion \notin ReferencedModules

C14_UsedNeverRemoved ==
    [][ReferencedModules \subseteq ReferencedModules']_vars

\* A registration is refused while two modules are in use.
C14_Witness ==
    /\ Cardinality(ReferencedModules) = 2
    /\ last.op = "Register"
    /\ last.result = "ValidationError"

---------------------------------------------------------------------------
(* Further properties of the binder (SpecBinder) *)

\* The class just declared is concrete and the module name found for it at
\* line 253 is not in _ModuleVersionTable.
DeclaredUnregistered(call) ==
    /\ DeclaredConcrete(call)
    /\ call.result # "AssociationMismatch"
    /\ GetModuleName(classes, call.cls)[1] \notin Registered

\* C15: the declaration of a concrete class whose module name is not
\* registered fails with NotRegistered (the lookup of line 253 fails) and
\* leaves the class without a ModuleVersion; no later step, a registration
\* of that name included, gives a class a ModuleVersion it did not get at
\* its declaration.
C15_UnregisteredNeverBound ==
    [][ /\ DeclaredUnregistered(last)' =>
            /\ last'.result = "NotRegistered"
            /\ classes'[last'.cls].ModuleVersion = 0
            /\ ~classes'[last'.cls].ok
        /\ \A c \in DOMAIN classes :
              classes'[c].ModuleVersion = classes[c].ModuleVersion
      ]_vars

\* A class whose declaration failed for want of its module is still unbound
\* right after the module of that name has been registered.
C15_Witness ==
    /\ last.op = "Register"
    /\ last.result = "ok"
    /\ \E c \in 1..Len(classes) :
          /\ ~classes[c].ok
          /\ ~classes[c].body_BaseClass
          /\ classes[c].body_ModuleName = None
          /\ classes[c].ModuleName = Some(last.name)
          /\ classes[c].ModuleVersion = 0
          /\ last.name \in Registered

\* C16: a class declared with BaseClass = True is never given a ModuleName
\* or a ModuleVersion and is never in ModuleSubClasses, whether or not a
\* module was loading; none is built with a ModuleName in its body or in its
\* base classes (that declaration fails); and a class declared without
\* BaseClass is in ModuleSubClasses, bound when its declaration succeeded,
\* also when its base class was declared with BaseClass = True.
C16_BaseClassNeverBound ==
    /\ \A c \in 1..Len(classes) :
          IF classes[c].body_BaseClass
          THEN /\ classes[c].ModuleName = None
               /\ classes[c].ModuleVersion = 0
               /\ \A i \in DOMAIN ModuleSubClasses : ModuleSubClasses[i] # c
               /\ classes[c].body_ModuleName = None
               /\ GetModuleName(classes, classes[c].parent) = None
          ELSE /\ \E i \in DOMAIN ModuleSubClasses : ModuleSubClasses[i] = c
               /\ classes[c].ok => classes[c].ModuleVersion # 0
    /\ last.result = "BaseClassTied" =>
          /\ last.base
          /\ last.explicit # None \/ last.inherits
          /\ last.cls = 0

\* While a module is loading, a class without BaseClass is declared as a
\* subclass of one declared with BaseClass = True, and is bound.
C16_Witness ==
    /\ last.op = "DeclareClass"
    /\ last.result = "ok"
    /\ last.cls # 0
    /\ LoadingModule # 0
    /\ ~classes[last.cls].body_BaseClass
    /\ classes[last.cls].parent # 0
    /\ classes[classes[last.cls].parent].body_BaseClass
    /\ classes[last.cls].ModuleVersion = LoadingModule

---------------------------------------------------------------------------
(* Further properties of the catalog (SpecCatalog) *)

\* C18: a call of ModuleVersion that passes the checks, does not suppress
\* the import and finds no definition file succeeds: the module is in the
\* table, no definition code is executed for it, hardware gains nothing and
\* _LoadingModule is what it was.
C18_NoSourceStillRegisters ==
    [][ ( /\ last'.op = "Register"
          /\ last'.result # "ValidationError"
          /\ ~last'.suppress
          /\ ~last'.found )
        => ( /\ last'.result = "ok"
             /\ last'.name \in DOMAIN table'
             /\ mods'[table'[last'.name]].name = last'.name
             /\ executing' = executing
             /\ hardware' = hardware
             /\ LoadingModule' = LoadingModule )
      ]_vars

\* A module without a definition file is registered while the definition
\* file of another module is executing.
C18_Witness ==
    /\ last.op = "Register"
    /\ last.result = "ok"
    /\ ~last.suppress
    /\ ~last.found
    /\ last.name \in DOMAIN table
    /\ LoadingModule # 0
    /\ LoadingModule # table[last.name]
    /\ executing = LoadingModule

\* C19: no step changes or removes an entry of hardware, so an entry keeps
\* the value the first module that exported its name gave it; and when a
\* definition file returns with a name in __all__ that hardware already
\* has, the registration fails with SymbolConflict.
C19_ExportsNeverShadowed ==
    [][ /\ \A n \in DOMAIN hardware :
              n \in DOMAIN hardware' /\ hardware'[n] = hardware[n]
        /\ ( /\ last'.op = "execfile"
             /\ last'.all # None
             /\ \E i \in DOMAIN last'.all[1] :
                   last'.all[1][i] \in DOMAIN hardware )
           => last'.result = "SymbolConflict"
      ]_vars

\* The definition file of a module exports x, which another module has
\* exported before: the call fails and x is still that of the first module.
C19_Witness ==
    /\ last.op = "execfile"
    /\ last.result = "SymbolConflict"
    /\ "x" \in DOMAIN hardware
    /\ mods[hardware["x"]].name # last.name

\* C21: a call of ModuleVersion with suppress_import that passes the checks
\* executes no definition file, whether one exists or not and whether or
\* not another module is loading: it succeeds, the module is in the table
\* and its macro name allocated, and _LoadingModule and hardware are what
\* they were.
C21_SuppressedNeverLoads ==
    [][ ( /\ last'.op = "Register"
          /\ last'.result # "ValidationError"
          /\ last'.suppress )
        => ( /\ last'.result = "ok"
             /\ last'.name \in DOMAIN table'
             /\ mods'[table'[last'.name]].name = last'.name
             /\ Upper(last'.name) \in MacroNames'
             /\ executing' = executing
             /\ hardware' = hardware
             /\ LoadingModule' = LoadingModule )
      ]_vars

\* A module that has a definition file is registered with suppress_import
\* while the definition file of another module is executing.
C21_Witness ==
    /\ last.op = "Register"
    /\ last.result = "ok"
    /\ last.suppress
    /\ last.found
    /\ last.name \in DOMAIN table
    /\ LoadingModule # 0
    /\ LoadingModule # table[last.name]
    /\ executing = LoadingModule

\* C22: after a call of ModuleVersion has failed in the loader (the nesting
\* assertion, a name of __all__ already in hardware, or an exception of the
\* definition file), neither the name of the module is in the table nor its
\* macro name allocated.  (Stated for catalogs of identifiers.)
C22_FailedLoadLeavesNothing ==
    ( /\ \A n \in DOMAIN table : IsIdentifier(n)
      /\ \/ last.op = "Register" /\ last.result = "LoadError"
         \/ last.op = "execfile"
              /\ last.result \in {"SymbolConflict", "DefinitionError"} )
    => /\ last.name \notin DOMAIN table
       /\ Upper(last.name) \notin MacroNames

---------------------------------------------------------------------------
(* Properties of LibPath (SpecPath) *)

\* C17: LibPath depends on the attributes of the module only.  Without
\* macro_name it is home, then the name if use_name is set, then the version
\* if there is one (None and the empty string are no version); with
\* macro_name it is "$(" + upper(name) + ")" whatever home, version and
\* use_name are.
C17_PathComposition ==
    output # None =>
        LET i == input[1]
            home == IF i.home = None THEN prodSupport ELSE i.home[1]
            present == i.version \notin { None, Some(<<>>) }
        IN  output[1] =
              IF i.macro_name
              THEN << <<"$(">> \o Upper(i.libname) \o <<")">> >>
              ELSE home \o (IF i.use_name THEN <<i.libname>> ELSE <<>>)
                        \o (IF present THEN <<i.version[1]>> ELSE <<>>)

\* /opt/foo/2
C17_Witness ==
    /\ input = Some([libname |-> <<"f", "o", "o">>, version |-> Some(<<"2">>),
                     home |-> Some(<< <<"opt">> >>), use_name |-> TRUE,
                     macro_name |-> FALSE])
    /\ output = Some(<< <<"opt">>, <<"f", "o", "o">>, <<"2">> >>)

---------------------------------------------------------------------------
(* Properties of the search for the definition file (SpecSearch) *)

\* The candidates in the order of the claim, each with its package flag.
Candidates(libname, load_path) ==
    IF load_path # None
    THEN << [file |-> load_path[1] \o <<libname, <<"__init__.py">> >>,
             package |-> TRUE],
            [file |-> load_path[1] \o << libname \o <<".py">> >>,
             package |-> FALSE] >>
    ELSE << [file |-> prodSupport \o <<libname, <<"builder">>,
                                       <<"__init__.py">> >>,
             package |-> TRUE],
            [file |-> prodSupport \o <<libname, <<"builder", ".py">> >>,
             package |-> FALSE],
            [file |-> DefaultsDir \o <<libname, <<"__init__.py">> >>,
             package |-> TRUE],
            [file |-> DefaultsDir \o << libname \o <<".py">> >>,
             package |-> FALSE] >>

\* C20: the file chosen is the first readable one of the candidates: under
\* a load path <load_path>/<name> as a package, then as a file, and nothing
\* else; otherwise <module path>/builder as a package, then as a file, then
\* <defaults>/<name> as a package, then as a file.  With none readable no
\* file is chosen; the package flag is that of the file chosen.
C20_FirstReadableCandidate ==
    output # None =>
        LET cands == Candidates(input[1].libname, input[1].load_path)
            hits == { k \in DOMAIN cands :
                        cands[k].file \in input[1].readable }
        IN  IF hits = {}
            THEN output[1].ModuleFile = None
            ELSE LET first == CHOOSE k \in hits : \A h \in hits : k <= h
                 IN  /\ output[1].ModuleFile = Some(cands[first].file)
                     /\ output[1].IsPackage = cands[first].package

\* Without a load path, with builder.py in the module, a package in the
\* defaults directory and a package under the load path directory: the
\* plain builder.py is chosen.
C20_Witness ==
    /\ input # None
    /\ output # None
    /\ input[1].libname = <<"a">>
    /\ input[1].load_path = None
    /\ input[1].readable =
         { << <<"prod">>, <<"a">>, <<"builder", ".py">> >>,
           << <<"iocbuilder">>, <<"defaults">>, <<"a">>, <<"__init__.py">> >>,
           << <<"lp">>, <<"a">>, <<"__init__.py">> >> }
    /\ output[1] = [ModuleFile |->
                       Some(<< <<"prod">>, <<"a">>, <<"builder", ".py">> >>),
                    IsPackage |-> FALSE]

---------------------------------------------------------------------------
(* Properties of the bindings over time (SpecBinder) *)

\* C23: the ModuleVersion of every class that has one is the module the
\* table maps the ModuleName of the class to, whatever registrations,
\* overriding ones included, have been made since the class was declared.
C23_BindingsCurrent ==
    \A c \in 1..Len(classes) :
        classes[c].ModuleVersion # 0 =>
            /\ GetModuleName(classes, c) # None
            /\ GetModuleName(classes, c)[1] \in DOMAIN table
            /\ table[GetModuleName(classes, c)[1]] = classes[c].ModuleVersion

\* An overriding registration of the module of a bound class has just been
\* attempted, while two modules are registered.
C23_Witness ==
    /\ last.op = "Register"
    /\ last.override
    /\ Cardinality(DOMAIN table) = 2
    /\ \E c \in 1..Len(classes) :
          /\ classes[c].ModuleVersion # 0
          /\ classes[c].ModuleName = Some(last.name)

\* C24: every class in ModuleSubClasses has a ModuleName and a ModuleVersion,
\* that of a module in the table; the class of a declaration that failed
\* (ModuleName of the body against the loading module, or a ModuleName that
\* is not registered) is not in the list.
C24_RecordedClassesBound ==
    \A i \in DOMAIN ModuleSubClasses :
        LET c == ModuleSubClasses[i]
        IN  /\ classes[c].ok
            /\ GetModuleName(classes, c) # None
            /\ GetModuleVersion(classes, c) # 0
            /\ \E n \in DOMAIN table : table[n] = GetModuleVersion(classes, c)

---------------------------------------------------------------------------
(* A further property of the record of used modules (SpecTracker) *)

\* C25: every element of _ReferencedModules is the module the table maps
\* its own name to, and no two elements have the same name.
C25_UsedAreRegistered ==
    /\ \A r \in ReferencedModules :
          /\ r \in 1..Len(mods)
          /\ mods[r].name \in DOMAIN table
          /\ table[mods[r].name] = r
    /\ \A r1, r2 \in ReferencedModules :
          mods[r1].name = mods[r2].name => r1 = r2

\* An overriding registration of a module in use has just been attempted,
\* while two modules are in use.
C25_Witness ==
    /\ last.op = "Register"
    /\ last.override
    /\ Cardinality(ReferencedModules) = 2
    /\ \E r \in ReferencedModules : mods[r].name = last.name

====
